---- MODULE Spec2Model ----
(***************************************************************************)
(* Model of MBTA_Analysis (src/mbta_api.py): the routes-with-stops table,  *)
(* the max/min reports, the connectivity index and the route search        *)
(* connect_route, with print_connected_route as its caller.                *)
(*                                                                         *)
(* A stop record is identified with its display name (the code reads only  *)
(* stop['attributes']['name'] and compares whole records by value), a      *)
(* route with its 'attributes.long_name'.  Row i of the table carries the  *)
(* name i, so "sorted by name" is the order of the integers.  The pandas   *)
(* calls are modelled by their documented meaning on values: str.len,      *)
(* idxmax/idxmin (first occurrence), explode, value_counts (descending     *)
(* counts, ties in order of first appearance), Series.keys (the index).    *)
(* list(set(...))[0] depends on the hash order of strings, which changes   *)
(* from one interpreter run to the next: it is a choice of any element.    *)
(***************************************************************************)
EXTENDS Integers, Sequences, FiniteSets, TLC

\* Bounds of the model.
MaxRoutes == 3
NumStops == 4
MaxEntries == 6

VARIABLES
    stops_routes,    \* self.stops_routes: sequence of rows [name, stops]
    pc,              \* "ready", "while", "returned", "done"
    op,              \* the method called in this run
    ret,             \* what the method returned (or raised)
    stop_1, stop_2,  \* arguments of connect_route
    routes_2,        \* local of connect_route
    rail_route,      \* local of connect_route
    next_stops,      \* local of connect_route: the frontier
    visited_stops,   \* local of connect_route
    invalid_msg,     \* "Invalid subway stop; ..." was printed (line 266)
    ret_line,        \* the return statement connect_route left by (0: none yet)
    output,          \* what print_connected_route printed
    pops             \* history: how often each stop was dequeued (line 280)

vars == <<stops_routes, pc, op, ret, stop_1, stop_2, routes_2, rail_route,
          next_stops, visited_stops, invalid_msg, ret_line, output, pops>>

Stops == 1..NumStops
RouteNames == 1..MaxRoutes

\* No run of the search loop gets near this many iterations (IterCapNotReached);
\* the guard only keeps the state space of a non-terminating variant finite.
IterCap == NumStops * NumStops

----------------------------------------------------------------------------
\* Helpers on sequences and sets.

RECURSIVE SetToSortedSeq(_)
SetToSortedSeq(S) ==
    IF S = {} THEN <<>>
    ELSE LET m == CHOOSE x \in S : \A y \in S : x <= y
         IN <<m>> \o SetToSortedSeq(S \ {m})

ToSet(s) == {s[i] : i \in 1..Len(s)}

Min(S) == CHOOSE x \in S : \A y \in S : x <= y

\* A stop list of a route, as the API returns it: distinct stops.
StopLists == {SetToSortedSeq(S) : S \in SUBSET Stops}

----------------------------------------------------------------------------
\* get_max_stops / get_min_stops

\* self.stops_routes['stops'].str.len()
str_len(t) == [i \in 1..Len(t) |-> Len(t[i].stops)]

\* A variant of idxmax that takes the last occurrence of the maximum.
idxmax_last(s) ==
    CHOOSE i \in DOMAIN s :
        /\ \A j \in DOMAIN s : s[j] <= s[i]
        /\ \A j \in DOMAIN s : j > i => s[j] < s[i]

\* Series.idxmax(): the label of the first occurrence of the maximum.
idxmax(s) ==
    CHOOSE i \in DOMAIN s :
        /\ \A j \in DOMAIN s : s[j] <= s[i]
        /\ \A j \in DOMAIN s : j < i => s[j] < s[i]

\* Series.idxmin(): the label of the first occurrence of the minimum.
idxmin(s) ==
    CHOOSE i \in DOMAIN s :
        /\ \A j \in DOMAIN s : s[j] >= s[i]
        /\ \A j \in DOMAIN s : j < i => s[j] > s[i]

get_max_stops(t) ==
    LET stop == t[idxmax(str_len(t))]
    IN <<stop.name, Len(stop.stops)>>

get_min_stops(t) ==
    LET stop == t[idxmin(str_len(t))]
    IN <<stop.name, Len(stop.stops)>>

----------------------------------------------------------------------------
\* get_connected_routes

\* DataFrame.explode('stops')['stops'] with the NaN of an empty list dropped
\* (value_counts drops it): the stops of all rows, in row order.
RECURSIVE explode(_)
explode(t) ==
    IF t = <<>> THEN <<>> ELSE Head(t).stops \o explode(Tail(t))

\* The distinct values of a sequence in order of first appearance.
RECURSIVE Distinct(_, _)
Distinct(s, seen) ==
    IF s = <<>> THEN <<>>
    ELSE IF Head(s) \in seen THEN Distinct(Tail(s), seen)
         ELSE <<Head(s)>> \o Distinct(Tail(s), seen \cup {Head(s)})

\* The tables of one to MaxRoutes rows (the snapshot of the subway routes is
\* never empty); row i is the route named i.  A table is taken up to the
\* naming of its stops: the stops are numbered in the order in which the
\* table first lists them, and a name the table does not list is an unknown
\* stop.  MaxEntries bounds the number of stop entries of the whole table.
Canonical(t) ==
    LET d == Distinct(explode(t), {}) IN \A j \in 1..Len(d) : d[j] = j

RECURSIVE TablesOfLen(_)
TablesOfLen(k) ==
    IF k = 0 THEN {<<>>}
    ELSE {t \in {Append(p, [name |-> k, stops |-> l]) : p \in TablesOfLen(k - 1), l \in StopLists} :
             Canonical(t) /\ Len(explode(t)) <= MaxEntries}

Tables == UNION {TablesOfLen(k) : k \in 1..MaxRoutes}

Occurrences(s, x) == Cardinality({i \in 1..Len(s) : s[i] = x})

\* Stable sort of keys by descending count.
RECURSIVE SortDesc(_, _)
SortDesc(keys, s) ==
    IF keys = <<>> THEN <<>>
    ELSE LET i == CHOOSE i \in 1..Len(keys) :
                    /\ \A j \in 1..Len(keys) :
                          Occurrences(s, keys[j]) <= Occurrences(s, keys[i])
                    /\ \A j \in 1..Len(keys) :
                          j < i => Occurrences(s, keys[j]) < Occurrences(s, keys[i])
             rest == [j \in 1..(Len(keys) - 1) |-> IF j < i THEN keys[j] ELSE keys[j + 1]]
         IN <<[key |-> keys[i], count |-> Occurrences(s, keys[i])]>> \o SortDesc(rest, s)

\* Series.value_counts(): one entry per distinct value, most frequent first.
value_counts(s) == SortDesc(Distinct(s, {}), s)

\* A variant of connected_keys that keeps the keys counted more than twice.
RECURSIVE connected_keys_gt2(_)
connected_keys_gt2(counts) ==
    IF counts = <<>> THEN <<>>
    ELSE (IF Head(counts).count > 2 THEN <<Head(counts).key>> ELSE <<>>)
         \o connected_keys_gt2(Tail(counts))

\* (counts > 1).keys(): the index of the boolean series, which is the index
\* of counts; the truth values are not used to select.
connected_keys(counts) == [i \in 1..Len(counts) |-> counts[i].key]

\* self.stops_routes[... stop in stops]['attributes.long_name'].tolist()
RECURSIVE matching_routes(_, _)
matching_routes(t, stop) ==
    IF t = <<>> THEN <<>>
    ELSE (IF stop \in ToSet(Head(t).stops) THEN <<Head(t).name>> ELSE <<>>)
         \o matching_routes(Tail(t), stop)

get_connected_routes(t) ==
    LET connected == connected_keys(value_counts(explode(t)))
    IN [i \in 1..Len(connected) |->
            [Stop |-> connected[i], Routes |-> matching_routes(t, connected[i])]]

----------------------------------------------------------------------------
\* get_stop_route

\* The inner loop over route['stops']: one append per stop of the name.
RECURSIVE stop_matches(_, _, _)
stop_matches(stops, name, provided_stop) ==
    IF stops = <<>> THEN <<>>
    ELSE (IF Head(stops) = provided_stop THEN <<name>> ELSE <<>>)
         \o stop_matches(Tail(stops), name, provided_stop)

\* A variant of get_stop_route_rows that stops at the first route it finds.
RECURSIVE get_stop_route_first(_, _)
get_stop_route_first(t, provided_stop) ==
    IF t = <<>> THEN <<>>
    ELSE IF stop_matches(Head(t).stops, Head(t).name, provided_stop) # <<>>
         THEN stop_matches(Head(t).stops, Head(t).name, provided_stop)
         ELSE get_stop_route_first(Tail(t), provided_stop)

RECURSIVE get_stop_route_rows(_, _)
get_stop_route_rows(t, provided_stop) ==
    IF t = <<>> THEN <<>>
    ELSE stop_matches(Head(t).stops, Head(t).name, provided_stop)
         \o get_stop_route_rows(Tail(t), provided_stop)

get_stop_route(provided_stop) == get_stop_route_rows(stops_routes, provided_stop)

----------------------------------------------------------------------------
\* connect_route

\* A variant of shared: set(a) | set(b).
shared_union(a, b) == ToSet(a) \cup ToSet(b)

\* set(a) & set(b)
shared(a, b) == ToSet(a) \cap ToSet(b)

\* The condition of line 301 for one row of the connectivity index.
is_next_stop(current_routes, row, visited) ==
    /\ shared(current_routes, row.Routes) # {}
    /\ row.Stop \notin visited

\* rail_route after lines 305-306 for the route list(...)[0] gave.
accumulate(rr, overlapping_routes) ==
    IF overlapping_routes \notin ToSet(rr) THEN Append(rr, overlapping_routes) ELSE rr

\* The for loop of lines 296-308 from row i on: every <<rail_route, next_stops>>
\* it can end with, one per way list(set(...))[0] can choose in each row.
RECURSIVE scan_rows(_, _, _, _, _, _)
scan_rows(connected, i, current_routes, visited, rr, ns) ==
    IF i > Len(connected) THEN {<<rr, ns>>}
    ELSE IF is_next_stop(current_routes, connected[i], visited)
         THEN UNION {scan_rows(connected, i + 1, current_routes, visited,
                               accumulate(rr, ov), Append(ns, connected[i].Stop))
                     : ov \in shared(current_routes, connected[i].Routes)}
         ELSE scan_rows(connected, i + 1, current_routes, visited, rr, ns)

\* next_stops.pop(0): the stop taken and the list left.
pop_first(ns) == <<Head(ns), Tail(ns)>>

\* A variant of mark_visited that forgets to add the stop.
mark_visited_skip(visited, current_stop) == visited

\* visited_stops.add(current_stop)
mark_visited(visited, current_stop) == visited \cup {current_stop}

Iterations == LET RECURSIVE Sum(_)
                  Sum(n) == IF n = 0 THEN 0 ELSE pops[n] + Sum(n - 1)
              IN Sum(NumStops)

----------------------------------------------------------------------------
\* The state machine: one method call on an MBTA_Analysis object.

\* The values the state takes.
TypeOK ==
    /\ stops_routes \in Seq([name : RouteNames, stops : Seq(Stops)])
    /\ pc \in {"ready", "while", "returned", "done"}
    /\ op \in {"none", "get_max_stops", "get_min_stops", "get_connected_routes",
               "connect_route"}
    /\ stop_1 \in Stops \cup {0}
    /\ stop_2 \in Stops \cup {0}
    /\ routes_2 \in Seq(RouteNames)
    /\ rail_route \in Seq(RouteNames)
    /\ next_stops \in Seq(Stops)
    /\ visited_stops \subseteq Stops
    /\ invalid_msg \in BOOLEAN
    /\ ret_line \in {0, 273, 291, 310}
    /\ output \in {"none", "route", "Route not found"}
    /\ pops \in [Stops -> Nat]

Init ==
    /\ stops_routes \in Tables
    /\ pc = "ready"
    /\ op = "none"
    /\ ret = <<>>
    /\ stop_1 = 0
    /\ stop_2 = 0
    /\ routes_2 = <<>>
    /\ rail_route = <<>>
    /\ next_stops = <<>>
    /\ visited_stops = {}
    /\ invalid_msg = FALSE
    /\ ret_line = 0
    /\ output = "none"
    /\ pops = [s \in Stops |-> 0]

search_vars == <<stop_1, stop_2, routes_2, rail_route, next_stops, visited_stops,
                 invalid_msg, ret_line, output, pops>>

call_get_max_stops ==
    /\ pc = "ready"
    /\ op' = "get_max_stops"
    /\ ret' = get_max_stops(stops_routes)
    /\ pc' = "done"
    /\ UNCHANGED <<stops_routes, search_vars>>

call_get_min_stops ==
    /\ pc = "ready"
    /\ op' = "get_min_stops"
    /\ ret' = get_min_stops(stops_routes)
    /\ pc' = "done"
    /\ UNCHANGED <<stops_routes, search_vars>>

call_get_connected_routes ==
    /\ pc = "ready"
    /\ op' = "get_connected_routes"
    /\ ret' = get_connected_routes(stops_routes)
    /\ pc' = "done"
    /\ UNCHANGED <<stops_routes, search_vars>>

\* connect_route, lines 261-277: the lookups, the message, the shared-route
\* return, and the set-up of the search.
connect_route_begin(s1, s2) ==
    /\ pc = "ready"
    /\ op' = "connect_route"
    /\ stop_1' = s1
    /\ stop_2' = s2
    /\ LET routes_1 == get_stop_route(s1)
           r2 == get_stop_route(s2)
       IN /\ routes_2' = r2
          /\ invalid_msg' = (routes_1 = <<>> \/ r2 = <<>>)
          /\ IF shared(routes_1, r2) # {}
             THEN \E first \in shared(routes_1, r2) :
                    /\ rail_route' = <<first>>
                    /\ ret' = <<first>>
                    /\ ret_line' = 273
                    /\ pc' = "returned"
                    /\ next_stops' = <<>>
             ELSE /\ rail_route' = <<>>
                  /\ next_stops' = <<s1>>
                  /\ pc' = "while"
                  /\ UNCHANGED <<ret, ret_line>>
    /\ visited_stops' = {}
    /\ UNCHANGED <<stops_routes, output, pops>>

\* One iteration of the while loop, lines 279-308.
loop_iteration ==
    /\ pc = "while"
    /\ next_stops # <<>>
    /\ Iterations < IterCap
    /\ LET current_stop == pop_first(next_stops)[1]
           rest == pop_first(next_stops)[2]
           visited == mark_visited(visited_stops, current_stop)
           current_routes == get_stop_route(current_stop)
           scan ==
               \E out \in scan_rows(get_connected_routes(stops_routes), 1,
                                     current_routes, visited, rail_route, rest) :
                   /\ rail_route' = out[1]
                   /\ next_stops' = out[2]
                   /\ UNCHANGED <<pc, ret, ret_line>>
       IN /\ visited_stops' = visited
          /\ pops' = [pops EXCEPT ![current_stop] = @ + 1]
          /\ IF shared(current_routes, routes_2) # {}
             THEN \E overlapping_routes \in shared(current_routes, routes_2) :
                    IF overlapping_routes \notin ToSet(rail_route)
                    THEN /\ rail_route' = Append(rail_route, overlapping_routes)
                         /\ ret' = Append(rail_route, overlapping_routes)
                         /\ ret_line' = 291
                         /\ pc' = "returned"
                         /\ next_stops' = rest
                    ELSE scan
             ELSE scan
    /\ UNCHANGED <<stops_routes, op, stop_1, stop_2, routes_2, invalid_msg, output>>

\* The loop condition fails: return rail_route, line 310.
loop_exit ==
    /\ pc = "while"
    /\ next_stops = <<>>
    /\ ret' = rail_route
    /\ ret_line' = 310
    /\ pc' = "returned"
    /\ UNCHANGED <<stops_routes, op, stop_1, stop_2, routes_2, rail_route, next_stops,
                   visited_stops, invalid_msg, output, pops>>

\* print_connected_route, lines 316-321, with the list connect_route returned.
print_connected_route ==
    /\ pc = "returned"
    /\ output' = IF ret # <<>> THEN "route" ELSE "Route not found"
    /\ pc' = "done"
    /\ UNCHANGED <<stops_routes, op, ret, stop_1, stop_2, routes_2, rail_route,
                   next_stops, visited_stops, invalid_msg, ret_line, pops>>

Next ==
    \/ call_get_max_stops
    \/ call_get_min_stops
    \/ call_get_connected_routes
    \/ \E s1 \in Stops, s2 \in Stops : connect_route_begin(s1, s2)
    \/ loop_iteration
    \/ loop_exit
    \/ print_connected_route

Spec == Init /\ [][Next]_vars

----------------------------------------------------------------------------
\* Vocabulary of the properties, read off the table itself.

Rows == 1..Len(stops_routes)
RouteStops(r) == ToSet(stops_routes[r].stops)

\* The routes a stop is on.
RoutesOf(s) == {r \in Rows : s \in RouteStops(r)}

Valid(s) == RoutesOf(s) # {}

\* The routes joined to a route of S by a chain of routes in which
\* consecutive routes share a stop.
RECURSIVE Component(_)
Component(S) ==
    LET N == S \cup {q \in Rows : \E r \in S : RouteStops(r) \cap RouteStops(q) # {}}
    IN IF N = S THEN S ELSE Component(N)

ChainExists(s1, s2) == Component(RoutesOf(s1)) \cap RoutesOf(s2) # {}

Returned == op = "connect_route" /\ pc \in {"returned", "done"}

\* The most iterations the loop can make over NumStops stop names: the
\* origin, then every other stop that is not the destination once for each
\* stop dequeued for the first time before it.
IterBound == 1 + ((NumStops - 1) * (NumStops - 2)) \div 2

\* The guard on IterCap never stops a run of the loop.
IterCapNotReached == IterBound < IterCap /\ Iterations <= IterBound

----------------------------------------------------------------------------
\* Properties.

\* C1: the connectivity index get_connected_routes returns holds a stop only
\* if the stop is on two or more distinct routes; a stop on exactly one route
\* is absent from it.
C1_IndexHoldsOnlyTransferStops ==
    (op = "get_connected_routes" /\ pc = "done") =>
        \A i \in 1..Len(ret) : Cardinality(RoutesOf(ret[i].Stop)) >= 2

\* C2: if stop_1 or stop_2 is on no route, connect_route returns the empty
\* sequence together with the unknown-stop message, whichever of the two
\* names is the unknown one.
C2_UnknownStopGivesEmpty ==
    (Returned /\ (~Valid(stop_1) \/ ~Valid(stop_2))) =>
        (ret = <<>> /\ invalid_msg)

\* C3: for two valid stops in disjoint route components (no chain of routes
\* linked by shared stops joins them), connect_route returns the empty
\* sequence.
C3_DisjointGivesEmpty ==
    (Returned /\ Valid(stop_1) /\ Valid(stop_2) /\ ~ChainExists(stop_1, stop_2)) =>
        ret = <<>>

\* C4: for two valid stops joined by a chain of routes in which consecutive
\* routes share a stop, connect_route ends with a non-empty result: the
\* search does not run out of stops to explore, and it leaves by a return
\* that appended a route.
C4_Reachability ==
    (op = "connect_route" /\ Valid(stop_1) /\ Valid(stop_2)
        /\ ChainExists(stop_1, stop_2)) =>
        /\ pc = "while" => next_stops # <<>>
        /\ pc \in {"returned", "done"} => (ret # <<>> /\ ret_line \in {273, 291})

C4_Witness ==
    /\ Returned /\ ret_line = 291
    /\ Valid(stop_1) /\ Valid(stop_2) /\ ChainExists(stop_1, stop_2)
    /\ RoutesOf(stop_1) \cap RoutesOf(stop_2) = {}
    /\ \A r \in RoutesOf(stop_1), q \in RoutesOf(stop_2) :
          RouteStops(r) \cap RouteStops(q) = {}
    /\ Len(ret) = 3

\* C5: connect_route always terminates, whatever the table and the two
\* names: each iteration of the search loop dequeues one stop, the number of
\* iterations never exceeds IterBound (so the guard on IterCap never stops
\* the loop), and while the call has not returned its next step, another
\* iteration or the exit of the loop, can be taken.
C5_Terminates ==
    /\ Iterations <= IterBound
    /\ IterBound < IterCap
    /\ pc = "while" =>
          \/ next_stops = <<>>
          \/ /\ Iterations < IterCap
             /\ scan_rows(get_connected_routes(stops_routes), 1,
                          get_stop_route(Head(next_stops)),
                          mark_visited(visited_stops, Head(next_stops)),
                          rail_route, Tail(next_stops)) # {}
    /\ pc = "returned" => ret_line \in {273, 291, 310}

C5_Witness ==
    /\ Returned /\ ret_line = 310
    /\ Iterations = IterBound
    /\ \E s \in Stops : pops[s] > 1

\* C6: for two valid stops whose route sets intersect (stop_1 = stop_2
\* included), connect_route returns a sequence of exactly one route, and that
\* route serves both stops.
C6_SharedRouteGivesOneRoute ==
    (Returned /\ RoutesOf(stop_1) \cap RoutesOf(stop_2) # {}) =>
        /\ Len(ret) = 1
        /\ ret[1] \in RoutesOf(stop_1) \cap RoutesOf(stop_2)
        /\ ret_line = 273
        /\ Iterations = 0

C6_Witness ==
    /\ Returned /\ stop_1 # stop_2
    /\ Cardinality(RoutesOf(stop_1) \cap RoutesOf(stop_2)) = 2
    /\ Cardinality(RoutesOf(stop_1)) = 3
    /\ Len(ret) = 1

\* C7: when the two stops share more than one route, connect_route returns
\* the route of the intersection that sorts lowest by name, so the same query
\* on the same table always gives the same sequence.
C7_LowestSharedRoute ==
    (Returned /\ Cardinality(RoutesOf(stop_1) \cap RoutesOf(stop_2)) > 1) =>
        ret = <<Min(RoutesOf(stop_1) \cap RoutesOf(stop_2))>>

\* C8: get_max_stops returns (name, n) and get_min_stops returns (name, n)
\* where n is the largest (smallest) stop-list length over all rows and name
\* is the route name of the first row in table order that has that length.
C8_MaxMinStops ==
    /\ (op = "get_max_stops" /\ pc = "done") =>
          \E i \in Rows :
             /\ ret = <<stops_routes[i].name, Cardinality(RouteStops(i))>>
             /\ \A j \in Rows : Cardinality(RouteStops(j)) <= ret[2]
             /\ \A j \in 1..(i - 1) : Cardinality(RouteStops(j)) # ret[2]
    /\ (op = "get_min_stops" /\ pc = "done") =>
          \E i \in Rows :
             /\ ret = <<stops_routes[i].name, Cardinality(RouteStops(i))>>
             /\ \A j \in Rows : Cardinality(RouteStops(j)) >= ret[2]
             /\ \A j \in 1..(i - 1) : Cardinality(RouteStops(j)) # ret[2]

C8_Witness ==
    /\ op = "get_max_stops" /\ pc = "done"
    /\ ret = <<2, 2>>
    /\ Len(stops_routes) = 3
    /\ Cardinality(RouteStops(3)) = 2
    /\ Cardinality(RouteStops(1)) = 1

\* C9: during one run of connect_route each stop is dequeued from the
\* frontier at most once, so the number of loop iterations never exceeds the
\* number of stops.
C9_DequeuedAtMostOnce ==
    /\ \A s \in Stops : pops[s] <= 1
    /\ Iterations <= NumStops

\* C10: in the multi-hop search, whenever the dequeued stop's routes
\* intersect the destination's routes the search appends one route of that
\* intersection and returns at that iteration: the returned sequence ends
\* with a route serving stop_2, no earlier element of it serves stop_2, and
\* the search never goes on past such a stop (while it is still searching,
\* and when it gives up, no dequeued stop is on a route of stop_2 and no
\* accumulated route serves stop_2).
C10_ReturnsAtDestinationRoute ==
    /\ (op = "connect_route" /\ ret_line = 291) =>
          /\ ret # <<>>
          /\ ret[Len(ret)] \in RoutesOf(stop_2)
          /\ \A k \in 1..(Len(ret) - 1) : ret[k] \notin RoutesOf(stop_2)
          /\ \E s \in visited_stops :
                /\ ret[Len(ret)] \in RoutesOf(s)
                /\ pops[s] = 1
          /\ \A s \in visited_stops :
                RoutesOf(s) \cap RoutesOf(stop_2) # {} => ret[Len(ret)] \in RoutesOf(s)
    /\ (op = "connect_route" /\ (pc = "while" \/ ret_line = 310)) =>
          /\ \A s \in visited_stops : RoutesOf(s) \cap RoutesOf(stop_2) = {}
          /\ \A k \in 1..Len(rail_route) : rail_route[k] \notin RoutesOf(stop_2)

C10_Witness ==
    /\ Returned /\ ret_line = 291
    /\ Len(ret) = 2
    /\ \E s \in visited_stops : Cardinality(RoutesOf(s) \cap RoutesOf(stop_2)) = 2
    /\ RoutesOf(stop_1) \cap RoutesOf(stop_2) = {}

====
